---- MODULE Spec2Model ----
(***************************************************************************)
(* Model of compensation_dashboard_poc.py: a Streamlit script that is run  *)
(* from the top on every user interaction.  The state is the session state *)
(* (authenticated), the widget values the script reads, the cached result  *)
(* of load_data, and what the last run of the script put on the page.      *)
(*                                                                         *)
(* Base_Salary is an integer number of dollars.  Compa_Ratio is a float in *)
(* the source; it is modelled in tenths (9 stands for 0.9), which is the   *)
(* step of the Compa Ratio slider.  Categorical values are numbered in the *)
(* order sorted() and groupby() put their labels in.                       *)
(***************************************************************************)
EXTENDS Integers, Sequences, FiniteSets

\* ---------------------------------------------------------------- bounds
MaxRows == 2
MaxInteractions == 2

\* ------------------------------------------------------ program constants
Secret == "CompDemo2025"
Midpoint == 10
AboveMaxRatio == 12

\* ------------------------------------------------------------ input data
Passwords == {"", "compdemo2025", "CompDemo2025 ", Secret}

\* The four employees the sheets are made of; the first three are the rows
\* of the worked example (A/5/0.9, A/7/1.1, B/6/1.3), the fourth ties the
\* first on salary in the other department and sits exactly at the midpoint.
Staff ==
    << [Department |-> 1, Job_Level |-> 1, Gender |-> 1, Ethnicity |-> 1,
        Base_Salary |-> 5, Compa_Ratio |-> 9],
       [Department |-> 1, Job_Level |-> 2, Gender |-> 2, Ethnicity |-> 1,
        Base_Salary |-> 7, Compa_Ratio |-> 11],
       [Department |-> 2, Job_Level |-> 1, Gender |-> 2, Ethnicity |-> 2,
        Base_Salary |-> 6, Compa_Ratio |-> 13],
       [Department |-> 2, Job_Level |-> 2, Gender |-> 1, Ethnicity |-> 2,
        Base_Salary |-> 5, Compa_Ratio |-> 10] >>

RecordPool == { Staff[i] : i \in DOMAIN Staff }

SeqsUpTo(S, n) == UNION { [1..k -> S] : k \in 0..n }

\* Every table of at most MaxRows rows: the inputs of the filter on its own.
EmployeeTables == SeqsUpTo(RecordPool, MaxRows)

Years == {"2024", "2025"}

NoSheets == [y \in Years |-> <<>>]

\* The employee sheets a workbook may hold.  A sheet has at least one row: on
\* an empty sheet the script stops at int(employee_df["Base_Salary"].min()).
SampleSheets ==
    { <<Staff[1], Staff[2], Staff[3]>>,
      <<Staff[4], Staff[1]>>,
      <<Staff[2]>>,
      <<Staff[3], Staff[4], Staff[2]>>,
      <<Staff[1], Staff[3]>> }

\* The workbook on disk: missing (load_data returns None), or its two
\* employee sheets.
Workbooks ==
    [found : {TRUE}, sheets : [Years -> SampleSheets]]
        \cup {[found |-> FALSE, sheets |-> NoSheets]}

\* ------------------------------------------------------- helper operators
Column(df, col) == { df[i][col] : i \in 1..Len(df) }

Min(S) == CHOOSE x \in S : \A y \in S : x <= y
Max(S) == CHOOSE x \in S : \A y \in S : x >= y

RECURSIVE SumCol(_, _)
SumCol(df, col) ==
    IF df = <<>> THEN 0 ELSE df[1][col] + SumCol(Tail(df), col)

\* Python's format of num/den to a whole number: round half to even.
RoundHalfEven(num, den) ==
    LET q == num \div den
        r == num - q * den
    IN  IF 2 * r < den THEN q
        ELSE IF 2 * r > den THEN q + 1
        ELSE IF q % 2 = 0 THEN q ELSE q + 1

\* f"{series.mean():.2f}" and friends: the mean of an empty series is NaN and
\* formats as the text nan; otherwise the mean times scale, rounded.
NaN == [nan |-> TRUE, value |-> 0]
Number(v) == [nan |-> FALSE, value |-> v]

FormatMean(sum, count, scale) ==
    IF count = 0 THEN NaN ELSE Number(RoundHalfEven(sum * scale, count))

\* float subtraction then formatting: NaN on either side gives NaN.
FormatDelta(s1, n1, s2, n2, scale) ==
    IF n1 = 0 \/ n2 = 0 THEN NaN
    ELSE Number(RoundHalfEven((s1 * n2 - s2 * n1) * scale, n1 * n2))

\* ------------------------------------------------------------ the filters
IsIn(df, col, selection) == SelectSeq(df, LAMBDA r : r[col] \in selection)

CategoricalFilters(df, P) ==
    LET d1 == IF P.dept_filter # {} THEN IsIn(df, "Department", P.dept_filter) ELSE df
        d2 == IF P.job_level_filter # {} THEN IsIn(d1, "Job_Level", P.job_level_filter) ELSE d1
        d3 == IF P.gender_filter # {} THEN IsIn(d2, "Gender", P.gender_filter) ELSE d2
        d4 == IF P.ethnicity_filter # {} THEN IsIn(d3, "Ethnicity", P.ethnicity_filter) ELSE d3
    IN  d4

\* Variant: the lower salary bound taken as exclusive.
RangeFilterExclusive(df, P) ==
    SelectSeq(df, LAMBDA r : /\ r.Base_Salary > P.min_salary
                             /\ r.Base_Salary <= P.max_salary
                             /\ r.Compa_Ratio >= P.min_compa
                             /\ r.Compa_Ratio <= P.max_compa)

\* Variant: the ends of each interval put in order before comparing.
RangeFilterOrdered(df, P) ==
    SelectSeq(df, LAMBDA r : /\ r.Base_Salary >= Min({P.min_salary, P.max_salary})
                             /\ r.Base_Salary <= Max({P.min_salary, P.max_salary})
                             /\ r.Compa_Ratio >= Min({P.min_compa, P.max_compa})
                             /\ r.Compa_Ratio <= Max({P.min_compa, P.max_compa}))

RangeFilter(df, P) ==
    SelectSeq(df, LAMBDA r : /\ r.Base_Salary >= P.min_salary
                             /\ r.Base_Salary <= P.max_salary
                             /\ r.Compa_Ratio >= P.min_compa
                             /\ r.Compa_Ratio <= P.max_compa)

\* Variant: the frame rebuilt from the second matching row on.
ApplyFiltersSkipFirst(employee_df, P) ==
    LET kept == RangeFilter(CategoricalFilters(employee_df, P), P)
    IN  IF kept = <<>> THEN kept ELSE Tail(kept)

ApplyFilters(employee_df, P) == RangeFilter(CategoricalFilters(employee_df, P), P)

\* The year comparison filters the other year's sheet with the four
\* multiselects only.
OtherYearFilters(other_df, P) == CategoricalFilters(other_df, P)

\* ------------------------------------------------------------ the metrics
\* The four st.metric values: len, mean with two decimals (in hundredths),
\* share below 1 with one decimal (in tenths of a percent), count above 1.2.
Metrics(filtered_df) ==
    [ total |-> Len(filtered_df),
      avg_compa |-> FormatMean(SumCol(filtered_df, "Compa_Ratio"), Len(filtered_df), 10),
      below_midpoint |->
          FormatMean(Len(SelectSeq(filtered_df, LAMBDA r : r.Compa_Ratio < Midpoint)),
                     Len(filtered_df), 1000),
      above_max |-> Len(SelectSeq(filtered_df, LAMBDA r : r.Compa_Ratio > AboveMaxRatio)) ]

\* ------------------------------------------------- the table and download
Schema == <<"Department", "Job_Level", "Gender", "Ethnicity", "Base_Salary", "Compa_Ratio">>

WithSelect(r, mark) ==
    [Department |-> r.Department, Job_Level |-> r.Job_Level, Gender |-> r.Gender,
     Ethnicity |-> r.Ethnicity, Base_Salary |-> r.Base_Salary,
     Compa_Ratio |-> r.Compa_Ratio, Select |-> mark]

\* Variant: the Select column left in the exported rows.
KeepSelect(r) == r

DropSelect(r) ==
    [Department |-> r.Department, Job_Level |-> r.Job_Level, Gender |-> r.Gender,
     Ethnicity |-> r.Ethnicity, Base_Salary |-> r.Base_Salary,
     Compa_Ratio |-> r.Compa_Ratio]

\* What st.data_editor hands back.  The sheet has no Select column (the
\* script puts "Select" in front of the sheet's columns); whether the editor
\* adds the configured checkbox column is the library's doing, so both
\* outcomes of the test "Select" in edited_df.columns are kept.
EditedDf(filtered_df, select_column, marks) ==
    IF select_column
    THEN [ columns |-> Schema \o <<"Select">>,
           rows |-> [i \in 1..Len(filtered_df) |-> WithSelect(filtered_df[i], i \in marks)] ]
    ELSE [ columns |-> Schema, rows |-> filtered_df ]

InSeq(x, s) == \E i \in 1..Len(s) : s[i] = x

NoDownload ==
    [offered |-> FALSE, label |-> "none", columns |-> <<>>, rows |-> <<>>,
     file_year |-> "", file_count |-> 0]

\* download_df, download_label and the st.download_button.
Download(filtered_df, select_column, marks, year) ==
    LET edited_df == EditedDf(filtered_df, select_column, marks)
        selected_count == Len(SelectSeq(edited_df.rows, LAMBDA r : r.Select))
        picked == SelectSeq(edited_df.rows, LAMBDA r : r.Select = TRUE)
        download_df ==
            IF InSeq("Select", edited_df.columns) /\ selected_count > 0
            THEN [ columns |-> SelectSeq(edited_df.columns, LAMBDA c : c # "Select"),
                   rows |-> [i \in 1..Len(picked) |-> DropSelect(picked[i])] ]
            ELSE [ columns |-> Schema, rows |-> filtered_df ]
        download_label ==
            IF ~InSeq("Select", edited_df.columns) THEN "filtered"
            ELSE IF selected_count > 0 THEN "selected" ELSE "all"
    IN  IF Len(filtered_df) > 0
        THEN [ offered |-> TRUE, label |-> download_label,
               columns |-> download_df.columns, rows |-> download_df.rows,
               file_year |-> year, file_count |-> Len(download_df.rows) ]
        ELSE NoDownload

\* --------------------------------------------------------- year comparison
OtherYear(year) == IF year = "2024" THEN "2025" ELSE "2024"

NoComparison ==
    [shown |-> FALSE, compa_delta |-> NaN, salary_delta |-> NaN, count_delta |-> 0]

\* The three deltas of the comparison block, primary minus other.
Deltas(filtered_df, other_filtered) ==
    [ shown |-> TRUE,
      compa_delta |-> FormatDelta(SumCol(filtered_df, "Compa_Ratio"), Len(filtered_df),
                                  SumCol(other_filtered, "Compa_Ratio"), Len(other_filtered), 10),
      salary_delta |-> FormatDelta(SumCol(filtered_df, "Base_Salary"), Len(filtered_df),
                                   SumCol(other_filtered, "Base_Salary"), Len(other_filtered), 1),
      count_delta |-> Len(filtered_df) - Len(other_filtered) ]

\* compare(primary, other, P) as the script computes it.
Compare(sheets, year, P) ==
    Deltas(ApplyFilters(sheets[year], P), OtherYearFilters(sheets[OtherYear(year)], P))

\* ----------------------------------------------------------------- insights
RECURSIVE SortedSeq(_)
SortedSeq(S) ==
    IF S = {} THEN <<>> ELSE <<Min(S)>> \o SortedSeq(S \ {Min(S)})

GroupSum(df, d) == SumCol(IsIn(df, "Department", {d}), "Base_Salary")
GroupLen(df, d) == Len(IsIn(df, "Department", {d}))

\* Variant: a later group that equals the best so far replaces it.
MeanGreaterOrEqual(df, a, b) ==
    GroupSum(df, a) * GroupLen(df, b) >= GroupSum(df, b) * GroupLen(df, a)

\* mean of group a > mean of group b, on the exact quotients
MeanGreater(df, a, b) ==
    GroupSum(df, a) * GroupLen(df, b) > GroupSum(df, b) * GroupLen(df, a)

\* Series.idxmax over the groups in groupby's (sorted) order: the first label
\* that holds the maximum.
RECURSIVE IdxMax(_, _, _)
IdxMax(df, keys, best) ==
    IF keys = <<>> THEN best
    ELSE IdxMax(df, Tail(keys),
                IF MeanGreater(df, keys[1], best) THEN keys[1] ELSE best)

NoHighest == [shown |-> FALSE, dept |-> 0]

HighestDept(filtered_df) ==
    LET keys == SortedSeq(Column(filtered_df, "Department"))
    IN  IF Len(filtered_df) > 0 /\ Len(keys) > 0
        THEN [shown |-> TRUE, dept |-> IdxMax(filtered_df, Tail(keys), keys[1])]
        ELSE NoHighest

\* ------------------------------------------------------------ the widgets
DefaultFilters(employee_df) ==
    [ dept_filter |-> {}, job_level_filter |-> {}, gender_filter |-> {},
      ethnicity_filter |-> {},
      min_salary |-> Min(Column(employee_df, "Base_Salary")),
      max_salary |-> Max(Column(employee_df, "Base_Salary")),
      min_compa |-> Min(Column(employee_df, "Compa_Ratio")),
      max_compa |-> Max(Column(employee_df, "Compa_Ratio")) ]

\* A widget keeps the user's value from one run to the next as long as it is
\* built with the same arguments (options, min_value, max_value, value); the
\* script takes these from the selected year's sheet, so a widget whose
\* arguments differ on the new sheet starts again from its default.
KeptMulti(new_df, old_df, col, selection) ==
    IF Column(new_df, col) = Column(old_df, col) THEN selection ELSE {}

KeptBounds(new_df, old_df, col) ==
    /\ Min(Column(new_df, col)) = Min(Column(old_df, col))
    /\ Max(Column(new_df, col)) = Max(Column(old_df, col))

FiltersOnSheet(new_df, old_df, P) ==
    LET keepS == KeptBounds(new_df, old_df, "Base_Salary")
        keepC == KeptBounds(new_df, old_df, "Compa_Ratio")
        dflt == DefaultFilters(new_df)
    IN  [ dept_filter |-> KeptMulti(new_df, old_df, "Department", P.dept_filter),
          job_level_filter |-> KeptMulti(new_df, old_df, "Job_Level", P.job_level_filter),
          gender_filter |-> KeptMulti(new_df, old_df, "Gender", P.gender_filter),
          ethnicity_filter |-> KeptMulti(new_df, old_df, "Ethnicity", P.ethnicity_filter),
          min_salary |-> IF keepS THEN P.min_salary ELSE dflt.min_salary,
          max_salary |-> IF keepS THEN P.max_salary ELSE dflt.max_salary,
          min_compa |-> IF keepC THEN P.min_compa ELSE dflt.min_compa,
          max_compa |-> IF keepC THEN P.max_compa ELSE dflt.max_compa ]

\* ------------------------------------------------------------------ state
VARIABLES
    authenticated,    \* st.session_state.authenticated
    password,         \* the text in the password field
    notice,           \* what the login page says after the last run
    loaded,           \* load_data has run (its result is cached)
    data,             \* the result of load_data
    select_column,    \* whether edited_df comes back with a Select column
    year,             \* the year selectbox
    filters,          \* the four multiselects and the two range sliders
    compare_enabled,  \* the Enable Year Comparison checkbox
    select_marks,     \* the rows ticked in the data editor (positions)
    interactions,     \* widget changes so far in this session
    page,             \* which part of the script the last run rendered
    filtered_df,
    other_filtered,
    metrics,
    download,
    comparison,
    highest_dept,
    trial             \* the filter applied on its own to a table and predicate

session == <<authenticated, password, notice>>
inputs == <<loaded, data, select_column>>
widgets == <<year, filters, compare_enabled, select_marks, interactions>>
outputs == <<page, filtered_df, other_filtered, metrics, download, comparison, highest_dept>>
vars == <<session, inputs, widgets, outputs, trial>>

NotLoaded == [found |-> FALSE, sheets |-> NoSheets]
NoFilters == DefaultFilters(<<[Base_Salary |-> 0, Compa_Ratio |-> 0]>>)
NoMetrics == [total |-> 0, avg_compa |-> Number(0), below_midpoint |-> Number(0), above_max |-> 0]
Idle == [stage |-> "idle", table |-> <<>>, predicate |-> NoFilters, view |-> <<>>, again |-> <<>>]

Init ==
    /\ authenticated = FALSE
    /\ password = ""
    /\ notice = "none"
    /\ loaded = FALSE
    /\ data = NotLoaded
    /\ select_column = FALSE
    /\ year = "2024"
    /\ filters = NoFilters
    /\ compare_enabled = FALSE
    /\ select_marks = {}
    /\ interactions = 0
    /\ page = "login"
    /\ filtered_df = <<>>
    /\ other_filtered = <<>>
    /\ metrics = NoMetrics
    /\ download = NoDownload
    /\ comparison = NoComparison
    /\ highest_dept = NoHighest
    /\ trial = Idle

\* ---------------------------------------------------------- one script run
\* The script below the login gate, for a workbook that was found, with the
\* widgets holding y, P, cmp and marks.  The comparison checkbox and the data
\* editor exist only while the view has rows; the editor starts afresh when
\* the frame it is given changes.
RunDashboard(sheets, y, P, cmp, marks) ==
    LET fdf == ApplyFilters(sheets[y], P)
        shown == Len(fdf) > 0
        compare == shown /\ cmp
        ticks == IF shown THEN marks ELSE {}
    IN  /\ year' = y
        /\ filters' = P
        /\ compare_enabled' = compare
        /\ select_marks' = ticks
        /\ page' = "dashboard"
        /\ filtered_df' = fdf
        /\ metrics' = Metrics(fdf)
        /\ download' = Download(fdf, select_column', ticks, y)
        /\ other_filtered' =
               IF compare THEN OtherYearFilters(sheets[OtherYear(y)], P) ELSE <<>>
        /\ comparison' = IF compare THEN Compare(sheets, y, P) ELSE NoComparison
        /\ highest_dept' = HighestDept(fdf)

\* ------------------------------------------------------------- the login
TypePassword(p) ==
    /\ ~authenticated
    /\ password' = p
    /\ notice' = "none"
    /\ UNCHANGED <<authenticated, inputs, widgets, outputs, trial>>

\* Variant: the flag set whatever was typed.
LoginAnyPassword ==
    /\ ~authenticated
    /\ password # Secret
    /\ authenticated' = TRUE
    /\ notice' = "none"
    /\ UNCHANGED <<password, inputs, widgets, outputs, trial>>

LoginWrong ==
    /\ ~authenticated
    /\ password # Secret
    /\ notice' = "incorrect"
    /\ UNCHANGED <<authenticated, password, inputs, widgets, outputs, trial>>

\* The right password: the flag is set, st.rerun() runs the script again and
\* this time it passes the gate, loads the workbook and renders.
LoginRight(workbook, editor_adds_select) ==
    /\ ~authenticated
    /\ password = Secret
    /\ authenticated' = TRUE
    /\ password' = ""
    /\ notice' = "none"
    /\ loaded' = TRUE
    /\ data' = workbook
    /\ select_column' = (workbook.found /\ editor_adds_select)
    /\ interactions' = 0
    /\ IF workbook.found
       THEN RunDashboard(workbook.sheets, "2024",
                         DefaultFilters(workbook.sheets["2024"]), FALSE, {})
       ELSE /\ page' = "nofile"
            /\ UNCHANGED <<year, filters, compare_enabled, select_marks,
                           filtered_df, other_filtered, metrics, download,
                           comparison, highest_dept>>
    /\ UNCHANGED trial

\* ------------------------------------------------------ widget interactions
Interact ==
    /\ authenticated
    /\ data.found
    /\ interactions < MaxInteractions
    /\ interactions' = interactions + 1
    /\ UNCHANGED <<session, inputs, trial>>

\* Marks survive a run only if the editor is handed the same frame again.
MarksAfter(y, P) ==
    IF ApplyFilters(data.sheets[y], P) = filtered_df THEN select_marks ELSE {}

Change(y, P, cmp) == RunDashboard(data.sheets, y, P, cmp, MarksAfter(y, P))

SelectYear(y) ==
    /\ Interact
    /\ y # year
    /\ Change(y, FiltersOnSheet(data.sheets[y], data.sheets[year], filters),
              compare_enabled)

Options(col) == Column(data.sheets[year], col)

SetDepartment(selection) ==
    /\ Interact
    /\ selection \subseteq Options("Department")
    /\ selection # filters.dept_filter
    /\ Change(year, [filters EXCEPT !.dept_filter = selection], compare_enabled)

SetJobLevel(selection) ==
    /\ Interact
    /\ selection \subseteq Options("Job_Level")
    /\ selection # filters.job_level_filter
    /\ Change(year, [filters EXCEPT !.job_level_filter = selection], compare_enabled)

SetGender(selection) ==
    /\ Interact
    /\ selection \subseteq Options("Gender")
    /\ selection # filters.gender_filter
    /\ Change(year, [filters EXCEPT !.gender_filter = selection], compare_enabled)

SetEthnicity(selection) ==
    /\ Interact
    /\ selection \subseteq Options("Ethnicity")
    /\ selection # filters.ethnicity_filter
    /\ Change(year, [filters EXCEPT !.ethnicity_filter = selection], compare_enabled)

\* A range slider returns a pair low <= high inside [min_value, max_value].
SetSalaryRange(low, high) ==
    /\ Interact
    /\ Min(Options("Base_Salary")) <= low /\ low <= high
    /\ high <= Max(Options("Base_Salary"))
    /\ <<low, high>> # <<filters.min_salary, filters.max_salary>>
    /\ Change(year, [filters EXCEPT !.min_salary = low, !.max_salary = high],
              compare_enabled)

SetCompaRange(low, high) ==
    /\ Interact
    /\ Min(Options("Compa_Ratio")) <= low /\ low <= high
    /\ high <= Max(Options("Compa_Ratio"))
    /\ <<low, high>> # <<filters.min_compa, filters.max_compa>>
    /\ Change(year, [filters EXCEPT !.min_compa = low, !.max_compa = high],
              compare_enabled)

ToggleCompare ==
    /\ Interact
    /\ Len(filtered_df) > 0
    /\ Change(year, filters, ~compare_enabled)

ToggleSelect(i) ==
    /\ Interact
    /\ select_column
    /\ i \in 1..Len(filtered_df)
    /\ RunDashboard(data.sheets, year, filters, compare_enabled,
                    IF i \in select_marks THEN select_marks \ {i}
                    ELSE select_marks \cup {i})

Categories ==
    UNION { { r.Department, r.Job_Level, r.Gender, r.Ethnicity } : r \in RecordPool }
RowPositions == 1..Max({ Len(sheet) : sheet \in SampleSheets })
SalaryValues == { r.Base_Salary : r \in RecordPool }
CompaValues == { r.Compa_Ratio : r \in RecordPool }
SliderSalaries == Min(SalaryValues)..Max(SalaryValues)
SliderCompas == Min(CompaValues)..Max(CompaValues)

Next ==
    \/ \E p \in Passwords : TypePassword(p)
    \/ LoginWrong
    \/ \E w \in Workbooks, b \in BOOLEAN : LoginRight(w, b)
    \/ \E y \in Years : SelectYear(y)
    \/ \E s \in SUBSET Categories : SetDepartment(s)
    \/ \E s \in SUBSET Categories : SetJobLevel(s)
    \/ \E s \in SUBSET Categories : SetGender(s)
    \/ \E s \in SUBSET Categories : SetEthnicity(s)
    \/ \E lo \in SliderSalaries, hi \in SliderSalaries : SetSalaryRange(lo, hi)
    \/ \E lo \in SliderCompas, hi \in SliderCompas : SetCompaRange(lo, hi)
    \/ ToggleCompare
    \/ \E i \in RowPositions : ToggleSelect(i)

Spec == Init /\ [][Next]_vars

\* ------------------------------------------------- the filter on its own
\* apply(T, P) for any table and any predicate, including selections of
\* values the table does not hold and intervals with min above max, which
\* the widgets never produce.
SalaryBounds == SalaryValues
CompaBounds == { Staff[4].Compa_Ratio, Staff[2].Compa_Ratio }

Predicates ==
    [ dept_filter : SUBSET Categories, job_level_filter : SUBSET Categories,
      gender_filter : SUBSET Categories, ethnicity_filter : SUBSET Categories,
      min_salary : SalaryBounds, max_salary : SalaryBounds,
      min_compa : CompaBounds, max_compa : CompaBounds ]

ApplyOnce ==
    /\ trial.stage = "idle"
    /\ \E T \in EmployeeTables, P \in Predicates :
           trial' = [ stage |-> "applied", table |-> T, predicate |-> P,
                      view |-> ApplyFilters(T, P), again |-> <<>> ]
    /\ UNCHANGED <<session, inputs, widgets, outputs>>

ApplyAgain ==
    /\ trial.stage = "applied"
    /\ trial' = [ trial EXCEPT !.stage = "reapplied",
                               !.again = ApplyFilters(trial.view, trial.predicate) ]
    /\ UNCHANGED <<session, inputs, widgets, outputs>>

NextFilter ==
    \/ ApplyOnce
    \/ ApplyAgain

FilterSpec == Init /\ [][NextFilter]_vars

\* ====================================================================
\* Properties
\* ====================================================================

\* What a predicate asks of one record: an empty selection asks nothing, a
\* non-empty one asks membership, each interval includes both its ends.
Chosen(selection, value) == selection = {} \/ value \in selection
Within(low, value, high) == low <= value /\ value <= high

Satisfies(r, P) ==
    /\ Chosen(P.dept_filter, r.Department)
    /\ Chosen(P.job_level_filter, r.Job_Level)
    /\ Chosen(P.gender_filter, r.Gender)
    /\ Chosen(P.ethnicity_filter, r.Ethnicity)
    /\ Within(P.min_salary, r.Base_Salary, P.max_salary)
    /\ Within(P.min_compa, r.Compa_Ratio, P.max_compa)

\* view is T restricted, in T's order, to exactly the positions that pass.
IsViewOf(view, T, P) ==
    \E f \in [1..Len(view) -> 1..Len(T)] :
        /\ \A i, j \in 1..Len(view) : i < j => f[i] < f[j]
        /\ { f[i] : i \in 1..Len(view) } = { k \in 1..Len(T) : Satisfies(T[k], P) }
        /\ \A i \in 1..Len(view) : view[i] = T[f[i]]

\* C1: the filtered view is the order-preserving subsequence of the table
\* made of exactly the records that satisfy every active constraint (empty
\* selection passes all, closed intervals).
C1_FilteredView ==
    trial.stage # "idle" => IsViewOf(trial.view, trial.table, trial.predicate)

\* C1 witness: a filter with an empty and a non-empty selection that keeps a
\* record sitting on each end of the salary interval and drops another.
C1_Witness ==
    /\ trial.stage = "applied"
    /\ trial.predicate.dept_filter = {}
    /\ trial.predicate.job_level_filter # {}
    /\ Len(trial.view) > 0
    /\ Len(trial.view) < Len(trial.table)
    /\ \E i \in 1..Len(trial.view) :
           trial.view[i].Base_Salary = trial.predicate.min_salary
    /\ \E i \in 1..Len(trial.view) :
           trial.view[i].Base_Salary = trial.predicate.max_salary

\* C2: with the comparison on, every record of the other year's view lies in
\* the same Base_Salary and Compa_Ratio intervals as the primary view.
C2_SamePredicate ==
    comparison.shown =>
        \A i \in 1..Len(other_filtered) :
            /\ Within(filters.min_salary, other_filtered[i].Base_Salary, filters.max_salary)
            /\ Within(filters.min_compa, other_filtered[i].Compa_Ratio, filters.max_compa)

Negated(a, b) == a.nan = b.nan /\ a.value = 0 - b.value

\* C3: the deltas with the years swapped, under the same predicate, are the
\* negation of the deltas shown (stated where the swapped primary view has
\* rows, so that the swapped comparison is computed at all).
C3_ComparatorSymmetry ==
    ( /\ comparison.shown
      /\ Len(ApplyFilters(data.sheets[OtherYear(year)], filters)) > 0 )
    => LET swapped == Compare(data.sheets, OtherYear(year), filters)
       IN  /\ comparison.count_delta = 0 - swapped.count_delta
           /\ Negated(comparison.compa_delta, swapped.compa_delta)
           /\ Negated(comparison.salary_delta, swapped.salary_delta)

\* C4: on an empty view the count is 0 and no metric text is NaN.
C4_EmptySummary ==
    (page = "dashboard" /\ Len(filtered_df) = 0) =>
        /\ metrics.total = 0
        /\ ~metrics.avg_compa.nan
        /\ ~metrics.below_midpoint.nan

\* C5: on an empty view an export with the headers and no rows is offered.
C5_ExportZeroRows ==
    (page = "dashboard" /\ Len(filtered_df) = 0) =>
        /\ download.offered
        /\ download.columns = Schema
        /\ download.rows = <<>>

NothingRun ==
    /\ ~loaded
    /\ page = "login"
    /\ filtered_df = <<>>
    /\ metrics = NoMetrics
    /\ ~download.offered
    /\ ~comparison.shown
    /\ ~highest_dept.shown

\* C6: the flag starts false; it becomes true only on a login with the exact
\* secret; wrong attempts leave it false and a later login with the secret is
\* still possible; while it is false nothing below the gate has run.
C6_AuthGate ==
    /\ ~authenticated
    /\ [](~authenticated => NothingRun)
    /\ []((~authenticated /\ password = Secret) =>
              ENABLED (\E w \in Workbooks, b \in BOOLEAN : LoginRight(w, b)))
    /\ [][(authenticated' /\ ~authenticated) => password = Secret]_vars
    /\ [][(~authenticated /\ password # Secret) => ~authenticated']_vars

\* C6 witness: access was granted and the dashboard rendered.
C6_Witness == authenticated /\ loaded /\ page = "dashboard"

\* The rows of df at the marked positions, in df's order.
MarkedRows(df, marks) ==
    LET at == SortedSeq(marks)
    IN  [k \in 1..Len(at) |-> df[at[k]]]

C8_Idempotent ==
    trial.stage = "reapplied" => trial.again = trial.view

\* C8 witness: the second application ran on a view that had dropped rows.
C8_Witness ==
    /\ trial.stage = "reapplied"
    /\ Len(trial.view) > 0
    /\ Len(trial.view) < Len(trial.table)

MeanAtLeast(df, a, b) ==
    GroupSum(df, a) * GroupLen(df, b) >= GroupSum(df, b) * GroupLen(df, a)

\* C9: for a view with rows the reported department is in the view, no
\* department of the view has a greater mean Base_Salary, and among those
\* that tie it is the first in group order; for an empty view none is shown.
C9_HighestDept ==
    page = "dashboard" =>
        IF Len(filtered_df) = 0 THEN ~highest_dept.shown
        ELSE /\ highest_dept.shown
             /\ highest_dept.dept \in Column(filtered_df, "Department")
             /\ \A e \in Column(filtered_df, "Department") :
                    /\ MeanAtLeast(filtered_df, highest_dept.dept, e)
                    /\ MeanAtLeast(filtered_df, e, highest_dept.dept)
                           => highest_dept.dept <= e

\* C9 witness: two departments of the view tie for the highest mean.
C9_Witness ==
    /\ highest_dept.shown
    /\ \E e \in Column(filtered_df, "Department") :
           /\ e # highest_dept.dept
           /\ MeanAtLeast(filtered_df, e, highest_dept.dept)

\* C10: a predicate whose salary or compa interval has min above max yields
\* the empty view, whatever the selections.
C10_InvertedInterval ==
    ( /\ trial.stage # "idle"
      /\ \/ trial.predicate.min_salary > trial.predicate.max_salary
         \/ trial.predicate.min_compa > trial.predicate.max_compa )
    => trial.view = <<>>

\* C10 witness: the filter ran on a table with rows and an inverted salary
\* interval.
C10_Witness ==
    /\ trial.stage = "applied"
    /\ trial.predicate.min_salary > trial.predicate.max_salary
    /\ trial.predicate.min_compa <= trial.predicate.max_compa
    /\ Len(trial.table) > 0
    /\ trial.view = <<>>

====
